---- MODULE Spec2Model ----
(***************************************************************************)
(* Model of src/loadtesting.ts: loadTest drives the workflow through the   *)
(* phase scheduler, harvests the settled iteration outcomes, aggregates    *)
(* step and response-time statistics, evaluates the configured checks and  *)
(* emits the 'loadtest:result' event.                                      *)
(*                                                                         *)
(* Numbers produced by the statistics are rationals [n, d] (n/d), so that  *)
(* a mean or an interpolated median keeps its exact value; 0/0 stands for  *)
(* NaN.  The wall-clock fields rps and duration are not part of the        *)
(* report modelled here.                                                   *)
(***************************************************************************)
EXTENDS Integers, Sequences, FiniteSets, TLC

\* Largest arrival rate of a phase: bounds the number of scheduled iterations.
MaxArrivalRate == 2
\* Largest number of metric keys declared in one check block.
MaxDeclared == 2

VARIABLES workflow, options, pc, error, toInvoke, resultList, outOfOrder,
          runCalls, schedulerCalls, report, events

vars == <<workflow, options, pc, error, toInvoke, resultList, outOfOrder,
          runCalls, schedulerCalls, report, events>>

----------------------------------------------------------------------------
(* Inputs *)

\* The keys of LoadTestCheck / LoadTestChecksResult, in the order loadTest
\* fills them in.
MetricKeys == <<"avg", "min", "max", "med", "p95", "p99">>

KeySet == {MetricKeys[i] : i \in 1..Len(MetricKeys)}

\* number | Matcher[]
NumberThreshold(n) == [kind |-> "number", value |-> n, matchers |-> <<>>]

MatcherThreshold(ms) == [kind |-> "matchers", value |-> 0, matchers |-> ms]

Thresholds ==
  { NumberThreshold(0),
    MatcherThreshold(<<>>),
    MatcherThreshold(<<[op |-> "gte", value |-> 50], [op |-> "lt", value |-> 100]>>) }

\* config.loadTest.check: undefined, or an object with some of the keys.
NoCheck == [defined |-> FALSE, decl |-> [k \in {} |-> NumberThreshold(0)]]

CheckBlocks ==
  {NoCheck} \cup
  { [defined |-> TRUE, decl |-> f] :
      f \in UNION { [S -> Thresholds] :
                      S \in {T \in SUBSET KeySet : Cardinality(T) <= MaxDeclared} } }

Phase(rate) == [arrivalRate |-> rate, duration |-> 1]

PhaseLists == {<<>>} \cup { <<Phase(r)>> : r \in 1..MaxArrivalRate }

NoPhases == [defined |-> FALSE, list |-> <<>>]

\* Workflow, as far as loadTest reads it: config?.loadTest?.phases and
\* config?.loadTest?.check.
Workflows ==
  { [hasConfig |-> FALSE, hasLoadTest |-> FALSE, phases |-> NoPhases, check |-> NoCheck],
    [hasConfig |-> TRUE,  hasLoadTest |-> FALSE, phases |-> NoPhases, check |-> NoCheck] }
  \cup
  { [hasConfig |-> TRUE, hasLoadTest |-> TRUE, phases |-> NoPhases, check |-> c] :
      c \in CheckBlocks }
  \cup
  { [hasConfig |-> TRUE, hasLoadTest |-> TRUE,
     phases |-> [defined |-> TRUE, list |-> ps], check |-> c] :
      ps \in PhaseLists, c \in CheckBlocks }

\* WorkflowOptions, as far as loadTest reads it: is options.ee present.
Options == [ee : BOOLEAN]

Step(p, rt) == [passed |-> p, responseTime |-> rt]

\* WorkflowResult.result values the executor may fulfil an iteration with.
WorkflowResults ==
  { [passed |-> TRUE,  tests |-> <<>>],
    [passed |-> TRUE,  tests |-> << [steps |-> <<Step(TRUE, 50)>>] >>],
    [passed |-> FALSE, tests |-> << [steps |-> <<Step(TRUE, 50), Step(FALSE, 150)>>],
                                   [steps |-> <<>>] >>] }

\* A rejected or pending promise carries no value.
NoValue == [passed |-> FALSE, tests |-> <<>>]

Pending == [status |-> "pending", value |-> NoValue]

Rejected == [status |-> "rejected", value |-> NoValue]

Fulfilled(v) == [status |-> "fulfilled", value |-> v]

----------------------------------------------------------------------------
(* simple-statistics *)

Rat(n, d) == [n |-> n, d |-> d]

NaN == Rat(0, 0)

Ok(v) == [threw |-> FALSE, value |-> v]

Throw == [threw |-> TRUE, value |-> NaN]

RECURSIVE sum(_)
sum(x) == IF x = <<>> THEN 0 ELSE Head(x) + sum(Tail(x))

RECURSIVE insert(_, _)
insert(v, x) ==
  IF x = <<>> THEN <<v>>
  ELSE IF v <= Head(x) THEN <<v>> \o x
  ELSE <<Head(x)>> \o insert(v, Tail(x))

RECURSIVE numericSort(_)
numericSort(x) == IF x = <<>> THEN <<>> ELSE insert(Head(x), numericSort(Tail(x)))

\* mean, min and max throw on an empty array.
mean(x) == IF Len(x) = 0 THEN Throw ELSE Ok(Rat(sum(x), Len(x)))

min(x) == IF Len(x) = 0 THEN Throw ELSE Ok(Rat(numericSort(x)[1], 1))

max(x) == IF Len(x) = 0 THEN Throw ELSE Ok(Rat(numericSort(x)[Len(x)], 1))

\* quantileSorted(sorted, p) with p = pct/100, 0 < p < 1: idx = length * p;
\* a fractional idx takes sorted[ceil(idx) - 1]; a whole idx takes the mean of
\* sorted[idx - 1] and sorted[idx] for an even length, sorted[idx] for an odd
\* one (0-based indexes).
quantile(x, pct) ==
  IF Len(x) = 0 THEN Throw
  ELSE LET sorted == numericSort(x)
           scaled == Len(x) * pct
           idx    == scaled \div 100
       IN  IF scaled % 100 # 0 THEN Ok(Rat(sorted[idx + 1], 1))
           ELSE IF Len(x) % 2 = 0 THEN Ok(Rat(sorted[idx] + sorted[idx + 1], 2))
           ELSE Ok(Rat(sorted[idx + 1], 1))

median(x) == quantile(x, 50)

\* The same aggregator with a statistics library that answers NaN for an
\* empty array instead of throwing.
metricsResultNaN(numbers) ==
  [ threw |-> FALSE,
    avg |-> mean(numbers).value, min |-> min(numbers).value,
    max |-> max(numbers).value,  med |-> median(numbers).value,
    p95 |-> quantile(numbers, 95).value, p99 |-> quantile(numbers, 99).value ]

metricsResult(numbers) ==
  [ threw |-> \/ mean(numbers).threw \/ min(numbers).threw \/ max(numbers).threw
              \/ median(numbers).threw
              \/ quantile(numbers, 95).threw \/ quantile(numbers, 99).threw,
    avg |-> mean(numbers).value, min |-> min(numbers).value,
    max |-> max(numbers).value,  med |-> median(numbers).value,
    p95 |-> quantile(numbers, 95).value, p99 |-> quantile(numbers, 99).value ]

----------------------------------------------------------------------------
(* matcher *)

checkMatcher(given, m) ==
  CASE m.op = "lt"  -> given.d # 0 /\ given.n < m.value * given.d
    [] m.op = "gte" -> given.d # 0 /\ given.n >= m.value * given.d

check(given, expected) ==
  IF expected.kind = "matchers"
  THEN \A i \in 1..Len(expected.matchers) : checkMatcher(given, expected.matchers[i])
  ELSE given.d # 0 /\ given.n = expected.value * given.d

checkResult(given, expected) ==
  [expected |-> expected, given |-> given, passed |-> check(given, expected)]

----------------------------------------------------------------------------
(* phasic *)

\* runPhases fires arrivalRate tasks in each second of each phase.
RECURSIVE ScheduledIterations(_)
ScheduledIterations(phases) ==
  IF phases = <<>> THEN 0
  ELSE Head(phases).arrivalRate * Head(phases).duration + ScheduledIterations(Tail(phases))

AllSettled(list) == \A i \in 1..Len(list) : list[i].status # "pending"

----------------------------------------------------------------------------
(* loadTest *)

\* Array.prototype.flat(1)
RECURSIVE flat(_)
flat(xs) == IF xs = <<>> THEN <<>> ELSE Head(xs) \o flat(Tail(xs))

\* Error('No load test config detected')
MissingLoadTestConfig == "No load test config detected"

\* The guard with only workflow.config tested.
HasPhasesConfigOnly(w) == w.hasConfig

\* !workflow.config?.loadTest?.phases is false: an array, even an empty one,
\* is truthy.
HasPhases(w) == w.hasConfig /\ w.hasLoadTest /\ w.phases.defined

\* (result as PromiseFulfilledResult).value.result reads a property of
\* undefined when the outcome is rejected.
HarvestThrows(list) == \E i \in 1..Len(list) : list[i].status = "rejected"

\* The harvest keeping only the iterations that passed.
ResultsPassedOnly(list) ==
  SelectSeq([i \in 1..Len(list) |-> list[i].value], LAMBDA r : r.passed)

Results(list) == [i \in 1..Len(list) |-> list[i].value]

TotalPassed(results) == SelectSeq(results, LAMBDA r : r.passed = TRUE)

Steps(results) ==
  flat(flat([i \in 1..Len(results) |->
    [j \in 1..Len(results[i].tests) |->
      [k \in 1..Len(results[i].tests[j].steps) |->
        results[i].tests[j].steps[k].passed]]]))

StepsPassed(steps) == SelectSeq(steps, LAMBDA step : step)

ResponseTimes(results) ==
  flat(flat([i \in 1..Len(results) |->
    [j \in 1..Len(results[i].tests) |->
      [k \in 1..Len(results[i].tests[j].steps) |->
        results[i].tests[j].steps[k].responseTime]]]))

\* if (check.avg): the number 0 is falsy, every array is truthy.
Truthy(t) == ~(t.kind = "number" /\ t.value = 0)

Evaluated(chk, k) == k \in DOMAIN chk.decl /\ Truthy(chk.decl[k])

\* checks stays undefined without a check block; otherwise one entry per key
\* whose threshold is truthy, in the order of the six if statements.
Checks(chk, responseTime) ==
  IF ~chk.defined THEN [defined |-> FALSE, entries |-> <<>>]
  ELSE LET keys == SelectSeq(MetricKeys, LAMBDA k : Evaluated(chk, k))
       IN  [defined |-> TRUE,
            entries |-> [i \in 1..Len(keys) |->
                          [key |-> keys[i],
                           result |-> checkResult(responseTime[keys[i]], chk.decl[keys[i]])]]]

\* Object.entries(undefined) throws.
EntriesThrows(checks) == ~checks.defined

\* Array.prototype.some, for the verdict below.
RECURSIVE some(_)
some(flags) == IF flags = <<>> THEN FALSE ELSE Head(flags) \/ some(Tail(flags))

\* Array.prototype.every
RECURSIVE every(_)
every(flags) == IF flags = <<>> THEN TRUE ELSE Head(flags) /\ every(Tail(flags))

\* The verdict with some in place of every.
OverallPassedSome(checks) ==
  some([i \in 1..Len(checks.entries) |-> checks.entries[i].result.passed])

OverallPassed(checks) ==
  every([i \in 1..Len(checks.entries) |-> checks.entries[i].result.passed])

\* The return without the emit.
EmitNothing(opts, result) == <<>>

\* options?.ee?.emit('loadtest:result', result)
Emit(opts, result) ==
  IF opts.ee THEN <<[name |-> "loadtest:result", payload |-> result]>> ELSE <<>>

Failure(e) == [threw |-> TRUE, error |-> e, report |-> <<>>, events |-> <<>>]

\* The part of loadTest after the await: either an error thrown on the way
\* or the report, returned after the event is emitted.  samples is
\* responseTimes.length, the numerator of rps.
Aggregate(w, opts, list) ==
  IF HarvestThrows(list) THEN Failure("TypeError")
  ELSE
    LET results       == Results(list)
        totalPassed   == TotalPassed(results)
        steps         == Steps(results)
        stepsPassed   == StepsPassed(steps)
        responseTimes == ResponseTimes(results)
        responseTime  == metricsResult(responseTimes)
        checks        == Checks(w.check, responseTime)
        result ==
          [ stats |-> [ steps |-> [passed |-> Len(steps), total |-> Len(stepsPassed)],
                        tests |-> [passed |-> Len(totalPassed), total |-> Len(results)] ],
            responseTime |-> responseTime,
            samples      |-> Len(responseTimes),
            iterations   |-> Len(results),
            checks       |-> checks,
            passed       |-> OverallPassed(checks) ]
    IN  IF responseTime.threw THEN Failure("EmptySampleSet")
        ELSE IF EntriesThrows(checks) THEN Failure("TypeError")
        ELSE [threw |-> FALSE, error |-> "none", report |-> <<result>>,
              events |-> Emit(opts, result)]

----------------------------------------------------------------------------
(* State machine *)

Init ==
  /\ workflow \in Workflows
  /\ options \in Options
  /\ pc = "start"
  /\ error = "none"
  /\ toInvoke = 0
  /\ resultList = <<>>
  /\ outOfOrder = FALSE
  /\ runCalls = 0
  /\ schedulerCalls = 0
  /\ report = <<>>
  /\ events = <<>>

\* loadTest up to its await: the guard, then the call of runPhases.
Start ==
  /\ pc = "start"
  /\ IF ~HasPhases(workflow)
     THEN /\ pc' = "failed"
          /\ error' = MissingLoadTestConfig
          /\ UNCHANGED <<toInvoke, schedulerCalls>>
     ELSE /\ pc' = "awaiting"
          /\ schedulerCalls' = schedulerCalls + 1
          /\ toInvoke' = ScheduledIterations(workflow.phases.list)
          /\ UNCHANGED error
  /\ UNCHANGED <<workflow, options, resultList, outOfOrder, runCalls, report, events>>

\* The scheduler calls the iteration callback, () => run(workflow, options).
Invoke ==
  /\ pc = "awaiting"
  /\ toInvoke > 0
  /\ toInvoke' = toInvoke - 1
  /\ runCalls' = runCalls + 1
  /\ resultList' = Append(resultList, Pending)
  /\ UNCHANGED <<workflow, options, pc, error, outOfOrder, schedulerCalls, report, events>>

\* One run settles, in any order: fulfilled with a WorkflowResult, or rejected.
\* outOfOrder records that a run settled before one invoked earlier.
Settle ==
  /\ pc = "awaiting"
  /\ \E i \in 1..Len(resultList) :
       /\ resultList[i].status = "pending"
       /\ \E o \in {Rejected} \cup {Fulfilled(v) : v \in WorkflowResults} :
            resultList' = [resultList EXCEPT ![i] = o]
       /\ outOfOrder' = (outOfOrder \/ \E j \in 1..(i - 1) : resultList[j].status = "pending")
  /\ UNCHANGED <<workflow, options, pc, error, toInvoke, runCalls, schedulerCalls,
                 report, events>>

\* runPhases resolves once every task has settled and loadTest runs to its end.
Resume ==
  /\ pc = "awaiting"
  /\ toInvoke = 0
  /\ AllSettled(resultList)
  /\ LET out == Aggregate(workflow, options, resultList)
     IN  /\ pc' = IF out.threw THEN "failed" ELSE "done"
         /\ error' = out.error
         /\ report' = out.report
         /\ events' = out.events
  /\ UNCHANGED <<workflow, options, toInvoke, resultList, outOfOrder, runCalls,
                 schedulerCalls>>

Next == Start \/ Invoke \/ Settle \/ Resume

Spec == Init /\ [][Next]_vars

TypeOK ==
  /\ pc \in {"start", "awaiting", "done", "failed"}
  /\ Len(report) <= 1
  /\ Len(events) <= 1

----------------------------------------------------------------------------
(* Properties *)

Terminated == pc \in {"done", "failed"}

\* The positions <<iteration, test, step>> of the steps carried by the
\* fulfilled outcomes of a settled list.
StepPositions(list) ==
  UNION { UNION { { <<i, j, k>> : k \in 1..Len(list[i].value.tests[j].steps) } :
                  j \in 1..Len(list[i].value.tests) } :
          i \in {n \in 1..Len(list) : list[n].status = "fulfilled"} }

SomeRejected == \E i \in 1..Len(resultList) : resultList[i].status = "rejected"

AllFulfilled == \A i \in 1..Len(resultList) : resultList[i].status = "fulfilled"

\* C1: in every returned report, stats.steps.total >= stats.steps.passed >= 0
\* and stats.tests.total >= stats.tests.passed >= 0.
C1_TotalsBoundPassed ==
  pc = "done" =>
    LET stats == report[1].stats
    IN  /\ stats.steps.total >= stats.steps.passed
        /\ stats.steps.passed >= 0
        /\ stats.tests.total >= stats.tests.passed
        /\ stats.tests.passed >= 0

\* C2: a settled list with a rejected iteration (and samples from the other
\* iterations, and a check block) still yields a report, which counts the
\* rejected iteration in tests.total and iterations but not in the steps.
C2_RejectedIterationIsData ==
  ( /\ Terminated
    /\ schedulerCalls = 1
    /\ SomeRejected
    /\ StepPositions(resultList) # {}
    /\ workflow.check.defined )
  => /\ pc = "done"
     /\ report[1].stats.tests.total = Len(resultList)
     /\ report[1].iterations = Len(resultList)
     /\ report[1].stats.tests.passed < Len(resultList)
     /\ report[1].samples = Cardinality(StepPositions(resultList))

\* C3: with phases but no check block, every iteration fulfilled and some
\* response time collected, loadTest returns a report whose passed is true.
C3_NoCheckBlockPasses ==
  ( /\ Terminated
    /\ schedulerCalls = 1
    /\ ~workflow.check.defined
    /\ AllFulfilled
    /\ StepPositions(resultList) # {} )
  => /\ pc = "done"
     /\ report[1].passed = TRUE

\* C4: without config, config.loadTest or config.loadTest.phases, loadTest
\* fails with the missing-config error; the scheduler and the iteration
\* callback are never called, no report is produced and no event emitted.
C4_MissingConfigFailsFirst ==
  (~workflow.hasConfig \/ ~workflow.hasLoadTest \/ ~workflow.phases.defined)
  => /\ schedulerCalls = 0
     /\ runCalls = 0
     /\ resultList = <<>>
     /\ report = <<>>
     /\ events = <<>>
     /\ pc \in {"start", "failed"}
     /\ (pc = "failed" => error = MissingLoadTestConfig)

C4_Witness ==
  /\ workflow.hasConfig /\ workflow.hasLoadTest /\ ~workflow.phases.defined
  /\ workflow.check.defined
  /\ pc = "failed"
  /\ error = MissingLoadTestConfig
  /\ runCalls = 0

\* C5: with a check block, the report's passed flag is the conjunction of the
\* passed flags of exactly the check results stored in result.checks.
C5_PassedIsConjunctionOfChecks ==
  (pc = "done" /\ workflow.check.defined) =>
    LET entries == report[1].checks.entries
    IN  report[1].passed = (\A i \in 1..Len(entries) : entries[i].result.passed)

C5_Witness ==
  /\ pc = "done"
  /\ workflow.check.defined
  /\ report[1].passed = FALSE
  /\ \E i, j \in 1..Len(report[1].checks.entries) :
       /\ report[1].checks.entries[i].result.passed
       /\ ~report[1].checks.entries[j].result.passed

\* C6: with a check block, result.checks has exactly the keys declared in the
\* check block, each evaluated once with that metric's summary value and that
\* key's threshold, the threshold 0 and the empty matcher list included.
C6_ChecksCoverDeclaredKeys ==
  (pc = "done" /\ workflow.check.defined) =>
    LET entries == report[1].checks.entries
    IN  /\ {entries[i].key : i \in 1..Len(entries)} = DOMAIN workflow.check.decl
        /\ Len(entries) = Cardinality(DOMAIN workflow.check.decl)
        /\ \A i \in 1..Len(entries) :
             /\ entries[i].result.given = report[1].responseTime[entries[i].key]
             /\ entries[i].result.expected = workflow.check.decl[entries[i].key]

\* C7: when the callback was invoked N times and every invocation fulfilled,
\* the report has stats.tests.total = N and iterations = N, whatever the
\* order of completion.
C7_EveryIterationCountedOnce ==
  (pc = "done" /\ AllFulfilled) =>
    /\ runCalls = ScheduledIterations(workflow.phases.list)
    /\ report[1].stats.tests.total = runCalls
    /\ report[1].iterations = runCalls

C7_Witness ==
  /\ pc = "done"
  /\ AllFulfilled
  /\ runCalls = 2
  /\ outOfOrder
  /\ resultList[1].value # resultList[2].value
  /\ report[1].stats.tests.total = 2

\* C8: a call that returns a report with an event sink present has emitted
\* exactly one 'loadtest:result' event carrying the returned report, after
\* every scheduled iteration settled; nothing is emitted before the return
\* or by a call that fails.
C8_OneResultEventOnReturn ==
  /\ (pc = "done" /\ options.ee) =>
       /\ Len(events) = 1
       /\ events[1].name = "loadtest:result"
       /\ events[1].payload = report[1]
       /\ toInvoke = 0
       /\ runCalls = ScheduledIterations(workflow.phases.list)
       /\ AllSettled(resultList)
  /\ (pc # "done" => events = <<>>)

C8_Witness ==
  /\ pc = "done"
  /\ options.ee
  /\ runCalls = 2
  /\ Len(events) = 1
  /\ events[1].payload = report[1]

\* C9: an empty phases list fails with the missing-config error like an
\* absent configuration: the scheduler is not called.
C9_EmptyPhasesIsMissingConfig ==
  ( /\ workflow.hasConfig /\ workflow.hasLoadTest /\ workflow.phases.defined
    /\ workflow.phases.list = <<>>
    /\ pc # "start" )
  => /\ pc = "failed"
     /\ error = MissingLoadTestConfig
     /\ schedulerCalls = 0
     /\ runCalls = 0

\* C10: when no response time was collected the aggregator fails and the
\* call fails with it: no report is returned, so none with a NaN summary
\* value, and no event is emitted.
C10_EmptySampleSetFailsCall ==
  /\ ( /\ Terminated
       /\ schedulerCalls = 1
       /\ StepPositions(resultList) = {} )
     => /\ pc = "failed"
        /\ (AllFulfilled => error = "EmptySampleSet")
        /\ report = <<>>
        /\ events = <<>>
  /\ pc = "done" =>
       \A k \in KeySet : report[1].responseTime[k].d # 0

C10_Witness ==
  /\ pc = "failed"
  /\ error = "EmptySampleSet"
  /\ runCalls = 2
  /\ AllFulfilled
  /\ workflow.check.defined
  /\ options.ee
  /\ events = <<>>

====
